---- MODULE Spec2Model ----
(***************************************************************************)
(* The image-generation Lambda handler of src/app.py: _parse_event,        *)
(* lambda_handler and _resp, with the text conversions they rely on        *)
(* (json.loads / json.dumps, base64.b64decode, str.strip) modelled on      *)
(* character sequences.                                                    *)
(***************************************************************************)
EXTENDS Integers, Sequences, FiniteSets, TLC

(* ---------------------------------------------------------------------- *)
(* Characters and bytes.  A Python str is a sequence of one-character      *)
(* strings; bytes are a sequence of integers 0..255.                       *)
(* ---------------------------------------------------------------------- *)
\* code points 32..95 and 97..126 (a backquote cannot be written in a string
\* of this language, so code point 96 is outside the modelled repertoire)
AsciiLow == <<" ","!","\"","#","$","%","&","'","(",")","*","+",",","-",".","/","0","1","2","3","4","5","6","7","8","9",":",";","<","=",">","?","@","A","B","C","D","E","F","G","H","I","J","K","L","M","N","O","P","Q","R","S","T","U","V","W","X","Y","Z","[","\\","]","^","_">>

AsciiHigh == <<"a","b","c","d","e","f","g","h","i","j","k","l","m","n","o","p","q","r","s","t","u","v","w","x","y","z","{","|","}","~">>

CodeOf ==
  [c \in {AsciiLow[i] : i \in 1..Len(AsciiLow)}
         \cup {AsciiHigh[i] : i \in 1..Len(AsciiHigh)} \cup {"\t", "\n", "\r"} |->
     IF c = "\t" THEN 9 ELSE IF c = "\n" THEN 10 ELSE IF c = "\r" THEN 13
     ELSE IF \E i \in 1..Len(AsciiLow) : AsciiLow[i] = c
       THEN 31 + (CHOOSE i \in 1..Len(AsciiLow) : AsciiLow[i] = c)
     ELSE 96 + (CHOOSE i \in 1..Len(AsciiHigh) : AsciiHigh[i] = c)]

Chr(b) == IF b = 9 THEN "\t" ELSE IF b = 10 THEN "\n" ELSE IF b = 13 THEN "\r"
          ELSE IF b <= 95 THEN AsciiLow[b - 31] ELSE AsciiHigh[b - 96]

Whitespace == {" ", "\t", "\n", "\r"}

Digits == <<"0","1","2","3","4","5","6","7","8","9">>

Rep(c, n) == [i \in 1..n |-> c]

MinOf(S) == CHOOSE m \in S : \A k \in S : m <= k

MaxOf(S) == CHOOSE m \in S : \A k \in S : m >= k

At(t, i) == IF i \in 1..Len(t) THEN t[i] ELSE ""

StartsWith(t, p) == Len(p) <= Len(t) /\ SubSeq(t, 1, Len(p)) = p

EndsWith(t, p) == Len(p) <= Len(t) /\ SubSeq(t, Len(t) - Len(p) + 1, Len(t)) = p

\* str.strip(): drop leading and trailing whitespace
Strip(s) ==
  LET keep == {i \in 1..Len(s) : s[i] \notin Whitespace}
  IN  IF keep = {} THEN <<>> ELSE SubSeq(s, MinOf(keep), MaxOf(keep))

\* str.encode("utf-8") on the modelled (ASCII) repertoire
Utf8Encode(s) == [i \in 1..Len(s) |-> CodeOf[s[i]]]

\* bytes.decode("utf-8"): a byte >= 0x80 that starts no valid sequence raises
Utf8Decode(bytes) ==
  IF \E i \in 1..Len(bytes) : bytes[i] >= 128
  THEN [ok |-> FALSE, val |-> <<>>]
  ELSE [ok |-> TRUE, val |-> [i \in 1..Len(bytes) |-> Chr(bytes[i])]]

(* ---------------------------------------------------------------------- *)
(* base64                                                                  *)
(* ---------------------------------------------------------------------- *)
B64Alphabet == <<"A","B","C","D","E","F","G","H","I","J","K","L","M","N","O","P","Q","R","S","T","U","V","W","X","Y","Z","a","b","c","d","e","f","g","h","i","j","k","l","m","n","o","p","q","r","s","t","u","v","w","x","y","z","0","1","2","3","4","5","6","7","8","9","+","/">>

B64Val == [c \in {B64Alphabet[i] : i \in 1..64} |->
             (CHOOSE i \in 1..64 : B64Alphabet[i] = c) - 1]

\* base64.b64encode, as a client producing an isBase64Encoded body does
B64Encode(bytes) ==
  LET n == Len(bytes)
      byte(i) == IF i <= n THEN bytes[i] ELSE 0
  IN  [k \in 1..(4 * ((n + 2) \div 3)) |->
         LET g  == (k - 1) \div 4
             j  == (k - 1) % 4
             b0 == byte(3 * g + 1)
             b1 == byte(3 * g + 2)
             b2 == byte(3 * g + 3)
         IN  CASE j = 0 -> B64Alphabet[(b0 \div 4) + 1]
               [] j = 1 -> B64Alphabet[(b0 % 4) * 16 + (b1 \div 16) + 1]
               [] j = 2 -> IF 3 * g + 2 > n THEN "="
                           ELSE B64Alphabet[(b1 % 16) * 4 + (b2 \div 64) + 1]
               [] j = 3 -> IF 3 * g + 3 > n THEN "="
                           ELSE B64Alphabet[(b2 % 64) + 1]]

\* base64.b64decode(s) with validate=False: characters outside the alphabet
\* are discarded, a complete pad sequence ends the input, and a truncated
\* final quantum raises binascii.Error
B64Decode(s) ==
  LET t     == SelectSeq(s, LAMBDA c : c \in DOMAIN B64Val \/ c = "=")
      n     == Len(t)
      isPad(i) == t[i] = "="
      quad(i)  == Cardinality({j \in 1..(i - 1) : ~isPad(j)}) % 4
      run(i)   == i - MaxOf({j \in 1..(i - 1) : ~isPad(j)} \cup {0})
      stops == {i \in 1..n : isPad(i) /\ quad(i) >= 2 /\ quad(i) + run(i) >= 4}
      used  == IF stops = {} THEN t ELSE SubSeq(t, 1, MinOf(stops) - 1)
      data  == SelectSeq(used, LAMBDA c : c # "=")
      v(i)  == B64Val[data[i]]
      q     == Len(data) % 4
      nb    == 3 * (Len(data) \div 4) + (IF q = 0 THEN 0 ELSE q - 1)
  IN  IF \E i \in 1..Len(s) : s[i] \notin DOMAIN CodeOf
        THEN [ok |-> FALSE, val |-> <<>>]
      ELSE IF stops = {} /\ q # 0
        THEN [ok |-> FALSE, val |-> <<>>]
      ELSE [ok |-> TRUE,
            val |-> [k \in 1..nb |->
                       LET g == (k - 1) \div 3
                           j == (k - 1) % 3
                       IN  CASE j = 0 -> v(4 * g + 1) * 4 + (v(4 * g + 2) \div 16)
                             [] j = 1 -> (v(4 * g + 2) % 16) * 16 + (v(4 * g + 3) \div 4)
                             [] j = 2 -> (v(4 * g + 3) % 4) * 64 + v(4 * g + 4)]]

(* ---------------------------------------------------------------------- *)
(* JSON values.  Every value is a record with the same fields, of which   *)
(* `kind` selects the one that carries the value:                          *)
(*   "null" | "bool" b | "num" n | "str" s (characters)                    *)
(*   "list" items (values) | "obj" members (<<key characters, value>>)     *)
(* A Python dict keeps insertion order and one entry per key.              *)
(* ---------------------------------------------------------------------- *)
JNull == [kind |-> "null", b |-> FALSE, n |-> 0, s |-> <<>>, items |-> <<>>, members |-> <<>>]

JBool(b) == [JNull EXCEPT !.kind = "bool", !.b = b]

JNum(n) == [JNull EXCEPT !.kind = "num", !.n = n]

JStr(s) == [JNull EXCEPT !.kind = "str", !.s = s]

JList(items) == [JNull EXCEPT !.kind = "list", !.items = items]

JObj(members) == [JNull EXCEPT !.kind = "obj", !.members = members]

IsStr(v) == v.kind = "str"

IsDict(v) == v.kind = "obj"

\* Python truthiness of a JSON value (the operand of `or`, `and`, `not`, `if`)
Truthy(v) ==
  CASE v.kind = "null" -> FALSE
    [] v.kind = "bool" -> v.b
    [] v.kind = "num"  -> v.n # 0
    [] v.kind = "str"  -> Len(v.s) > 0
    [] v.kind = "list" -> Len(v.items) > 0
    [] v.kind = "obj"  -> Len(v.members) > 0

\* `key in d`
HasKey(d, key) == \E i \in 1..Len(d.members) : d.members[i][1] = key

\* d.get(key, default)
DictGet(d, key, default) ==
  IF HasKey(d, key)
  THEN d.members[CHOOSE i \in 1..Len(d.members) : d.members[i][1] = key][2]
  ELSE default

\* d[key] = value on the member sequence of a dict
DictSet(members, key, value) ==
  IF \E i \in 1..Len(members) : members[i][1] = key
  THEN [i \in 1..Len(members) |->
          IF members[i][1] = key THEN <<key, value>> ELSE members[i]]
  ELSE Append(members, <<key, value>>)

\* x[0]: the outcome of subscripting a JSON value with 0.  A list or str
\* yields its first element (IndexError when empty); a dict raises KeyError
\* (its keys are strings); every other type raises TypeError.
Index0(v) ==
  CASE v.kind = "list" -> IF Len(v.items) > 0 THEN [ok |-> TRUE, val |-> v.items[1], exc |-> "none"]
                          ELSE [ok |-> FALSE, val |-> JNull, exc |-> "IndexError"]
    [] v.kind = "str"  -> IF Len(v.s) > 0 THEN [ok |-> TRUE, val |-> JStr(<<v.s[1]>>), exc |-> "none"]
                          ELSE [ok |-> FALSE, val |-> JNull, exc |-> "IndexError"]
    [] v.kind = "obj"  -> [ok |-> FALSE, val |-> JNull, exc |-> "KeyError"]
    [] OTHER           -> [ok |-> FALSE, val |-> JNull, exc |-> "TypeError"]

(* ---------------------------------------------------------------------- *)
(* json.dumps with the default separators (", " and ": ")                  *)
(* ---------------------------------------------------------------------- *)
RECURSIVE NatDigits(_)
NatDigits(n) == IF n < 10 THEN <<Digits[n + 1]>>
                ELSE NatDigits(n \div 10) \o <<Digits[(n % 10) + 1]>>

EscapeChar(c) ==
  CASE c = "\"" -> <<"\\","\"">>
    [] c = "\\" -> <<"\\","\\">>
    [] c = "\n" -> <<"\\","n">>
    [] c = "\t" -> <<"\\","t">>
    [] c = "\r" -> <<"\\","r">>
    [] OTHER    -> <<c>>

RECURSIVE Escape(_)
Escape(s) ==
  IF Len(s) = 0 THEN <<>>
  ELSE IF Len(s) = 1 THEN EscapeChar(s[1])
  ELSE LET h == Len(s) \div 2
       IN  Escape(SubSeq(s, 1, h)) \o Escape(SubSeq(s, h + 1, Len(s)))

DumpsStr(s) == <<"\"">> \o Escape(s) \o <<"\"">>

RECURSIVE JsonDumps(_), DumpsItems(_, _), DumpsMembers(_, _)
JsonDumps(v) ==
  CASE v.kind = "null" -> <<"n","u","l","l">>
    [] v.kind = "bool" -> IF v.b THEN <<"t","r","u","e">> ELSE <<"f","a","l","s","e">>
    [] v.kind = "num"  -> IF v.n < 0 THEN <<"-">> \o NatDigits(0 - v.n)
                          ELSE NatDigits(v.n)
    [] v.kind = "str"  -> DumpsStr(v.s)
    [] v.kind = "list" -> <<"[">> \o DumpsItems(v.items, 1) \o <<"]">>
    [] v.kind = "obj"  -> <<"{">> \o DumpsMembers(v.members, 1) \o <<"}">>

DumpsItems(items, i) ==
  IF i > Len(items) THEN <<>>
  ELSE (IF i > 1 THEN <<","," ">> ELSE <<>>)
       \o JsonDumps(items[i]) \o DumpsItems(items, i + 1)

DumpsMembers(members, i) ==
  IF i > Len(members) THEN <<>>
  ELSE (IF i > 1 THEN <<","," ">> ELSE <<>>)
       \o DumpsStr(members[i][1]) \o <<":"," ">> \o JsonDumps(members[i][2])
       \o DumpsMembers(members, i + 1)

(* ---------------------------------------------------------------------- *)
(* json.loads: a parse result is [ok, val, pos] with pos the index after   *)
(* the parsed text.  ok = FALSE stands for json.JSONDecodeError.           *)
(* ---------------------------------------------------------------------- *)
ParseFail == [ok |-> FALSE, val |-> JNull, pos |-> 0]

ParseOk(v, p) == [ok |-> TRUE, val |-> v, pos |-> p]

RECURSIVE SkipWs(_, _)
SkipWs(t, i) == IF At(t, i) \in Whitespace THEN SkipWs(t, i + 1) ELSE i

\* number of consecutive backslashes immediately before position j
RECURSIVE BackslashRun(_, _)
BackslashRun(t, j) == IF At(t, j - 1) = "\\" THEN 1 + BackslashRun(t, j - 1) ELSE 0

UnescapeChar(c) ==
  CASE c = "n" -> "\n"
    [] c = "t" -> "\t"
    [] c = "r" -> "\r"
    [] OTHER   -> c

\* the text between the quotes of a JSON string, decoded
Unescape(raw) ==
  LET n    == Len(raw)
      intro == {k \in 1..n : raw[k] = "\\" /\ BackslashRun(raw, k) % 2 = 0}
      idx  == SelectSeq([k \in 1..n |-> k], LAMBDA k : k \notin intro)
  IN  IF \E k \in 1..n : raw[k] \in {"\t", "\n", "\r"}
        THEN [ok |-> FALSE, val |-> <<>>]
      ELSE IF \E k \in intro : At(raw, k + 1) \notin {"\"", "\\", "/", "n", "t", "r"}
        THEN [ok |-> FALSE, val |-> <<>>]
      ELSE [ok |-> TRUE,
            val |-> [m \in 1..Len(idx) |->
                       IF (idx[m] - 1) \in intro THEN UnescapeChar(raw[idx[m]])
                       ELSE raw[idx[m]]]]

\* t[i] is the opening quote
ParseString(t, i) ==
  LET closing == {j \in (i + 1)..Len(t) : t[j] = "\"" /\ BackslashRun(t, j) % 2 = 0}
  IN  IF closing = {} THEN ParseFail
      ELSE LET j == MinOf(closing)
               u == Unescape(SubSeq(t, i + 1, j - 1))
           IN  IF u.ok THEN ParseOk(JStr(u.val), j + 1) ELSE ParseFail

DigitVal(c) == (CHOOSE d \in 1..10 : Digits[d] = c) - 1

IsDigit(c) == \E d \in 1..10 : Digits[d] = c

RECURSIVE DigitsEnd(_, _)
DigitsEnd(t, i) == IF IsDigit(At(t, i)) THEN DigitsEnd(t, i + 1) ELSE i

RECURSIVE DigitsValue(_, _, _)
DigitsValue(t, i, j) ==
  IF j < i THEN 0 ELSE 10 * DigitsValue(t, i, j - 1) + DigitVal(t[j])

\* integers only: "-"? ( "0" | [1-9][0-9]* ); fractions and exponents are
\* outside the modelled repertoire
ParseNumber(t, i) ==
  LET s == IF At(t, i) = "-" THEN i + 1 ELSE i
      e == IF At(t, s) = "0" THEN s + 1 ELSE DigitsEnd(t, s)
  IN  IF e = s THEN ParseFail
      ELSE ParseOk(JNum(IF s > i THEN 0 - DigitsValue(t, s, e - 1)
                        ELSE DigitsValue(t, s, e - 1)), e)

ParseLiteral(t, i, word, v) ==
  IF SubSeq(t, i, MinOf({Len(t), i + Len(word) - 1})) = word
  THEN ParseOk(v, i + Len(word)) ELSE ParseFail

RECURSIVE ParseValue(_, _), ParseItems(_, _, _), ParseMembers(_, _, _)
ParseValue(t, i) ==
  LET c == At(t, i)
  IN  CASE c = "{"  -> LET j == SkipWs(t, i + 1)
                       IN  IF At(t, j) = "}" THEN ParseOk(JObj(<<>>), j + 1)
                           ELSE ParseMembers(t, j, <<>>)
        [] c = "["  -> LET j == SkipWs(t, i + 1)
                       IN  IF At(t, j) = "]" THEN ParseOk(JList(<<>>), j + 1)
                           ELSE ParseItems(t, j, <<>>)
        [] c = "\"" -> ParseString(t, i)
        [] c = "-" \/ IsDigit(c) -> ParseNumber(t, i)
        [] c = "t"  -> ParseLiteral(t, i, <<"t","r","u","e">>, JBool(TRUE))
        [] c = "f"  -> ParseLiteral(t, i, <<"f","a","l","s","e">>, JBool(FALSE))
        [] c = "n"  -> ParseLiteral(t, i, <<"n","u","l","l">>, JNull)
        [] OTHER    -> ParseFail

ParseItems(t, i, acc) ==
  LET r == ParseValue(t, i)
  IN  IF ~r.ok THEN ParseFail
      ELSE LET j == SkipWs(t, r.pos)
           IN  CASE At(t, j) = "," -> ParseItems(t, SkipWs(t, j + 1), Append(acc, r.val))
                 [] At(t, j) = "]" -> ParseOk(JList(Append(acc, r.val)), j + 1)
                 [] OTHER          -> ParseFail

ParseMembers(t, i, acc) ==
  IF At(t, i) # "\"" THEN ParseFail
  ELSE LET k == ParseString(t, i)
       IN  IF ~k.ok THEN ParseFail
           ELSE LET c == SkipWs(t, k.pos)
                IN  IF At(t, c) # ":" THEN ParseFail
                    ELSE LET r == ParseValue(t, SkipWs(t, c + 1))
                         IN  IF ~r.ok THEN ParseFail
                             ELSE LET j  == SkipWs(t, r.pos)
                                      m  == DictSet(acc, k.val.s, r.val)
                                  IN  CASE At(t, j) = "," -> ParseMembers(t, SkipWs(t, j + 1), m)
                                        [] At(t, j) = "}" -> ParseOk(JObj(m), j + 1)
                                        [] OTHER          -> ParseFail

\* json.loads(text): one value, surrounded by optional whitespace
JsonLoads(t) ==
  LET r == ParseValue(t, SkipWs(t, 1))
  IN  IF r.ok /\ SkipWs(t, r.pos) = Len(t) + 1
      THEN [ok |-> TRUE, val |-> r.val]
      ELSE [ok |-> FALSE, val |-> JNull]

(* ---------------------------------------------------------------------- *)
(* Configuration (module level, read once from the environment)            *)
(* ---------------------------------------------------------------------- *)
MaxPromptLen == 800

ExpiresIn == 3600

RidLen == 10

DefaultModelId == <<"s","t","a","b","i","l","i","t","y",".","s","d","3","-","5","-","l","a","r","g","e","-","v","1",":","0">>

DefaultKeyPrefix == <<"s","d","3","5","/">>

\* the environments the function is deployed with: the defaults, and one
\* with every optional variable overridden
Configs ==
  { [OUTPUT_BUCKET |-> <<"p","o","s","t","e","r","s">>, MODEL_ID |-> DefaultModelId,
     KEY_PREFIX |-> DefaultKeyPrefix],
    [OUTPUT_BUCKET |-> <<"a","r","t","-","b","u","c","k","e","t">>, MODEL_ID |-> <<"s","t","a","b","i","l","i","t","y",".","s","d","3","-","l","a","r","g","e","-","v","1",":","0">>,
     KEY_PREFIX |-> <<"i","m","g","/">>] }

(* ---------------------------------------------------------------------- *)
(* Messages                                                                *)
(* ---------------------------------------------------------------------- *)
ParseErrorKey == <<"_","_","p","a","r","s","e","_","e","r","r","o","r","_","_">>

ErrInvalidBase64 == <<"I","n","v","a","l","i","d"," ","b","a","s","e","6","4","-","e","n","c","o","d","e","d"," ","b","o","d","y">>

ErrInvalidJson == <<"I","n","v","a","l","i","d"," ","J","S","O","N"," ","i","n"," ","r","e","q","u","e","s","t"," ","b","o","d","y">>

ErrUnsupportedBody == <<"U","n","s","u","p","p","o","r","t","e","d"," ","b","o","d","y"," ","f","o","r","m","a","t">>

ErrMissingPrompt == <<"M","i","s","s","i","n","g"," ","'","p","r","o","m","p","t","'">>

ErrPromptTooLong == <<"P","r","o","m","p","t"," ","t","o","o"," ","l","o","n","g"," ","(","m","a","x"," ","8","0","0"," ","c","h","a","r","s",")">>

ErrInvokeFailed == <<"B","e","d","r","o","c","k"," ","i","n","v","o","k","e"," ","f","a","i","l","e","d">>

ErrInvalidResponse == <<"I","n","v","a","l","i","d"," ","B","e","d","r","o","c","k"," ","r","e","s","p","o","n","s","e">>

ErrFiltered == <<"F","i","l","t","e","r","e","d","/","f","a","i","l","e","d">>

ErrNoImage == <<"N","o"," ","i","m","a","g","e"," ","r","e","t","u","r","n","e","d"," ","f","r","o","m"," ","m","o","d","e","l">>

ErrImageDecode == <<"I","m","a","g","e"," ","d","e","c","o","d","e"," ","f","a","i","l","e","d">>

ErrUpload == <<"S","3"," ","u","p","l","o","a","d"," ","f","a","i","l","e","d">>

ErrPresign == <<"F","a","i","l","e","d"," ","t","o"," ","g","e","n","e","r","a","t","e"," ","p","r","e","s","i","g","n","e","d"," ","U","R","L">>

(* ---------------------------------------------------------------------- *)
(* _resp and _parse_event                                                  *)
(* ---------------------------------------------------------------------- *)
ResponseHeaders ==
  ("Content-Type" :> "application/json") @@ ("Access-Control-Allow-Origin" :> "*")

NoResponse == [statusCode |-> 0, headers |-> ResponseHeaders, body |-> <<>>]

Resp(status_code, body) ==
  [statusCode |-> status_code, headers |-> ResponseHeaders, body |-> JsonDumps(body)]

ErrorBody(msg) == JObj(<< <<<<"e","r","r","o","r">>, JStr(msg)>> >>)

ParseError(msg) == JObj(<< <<ParseErrorKey, JStr(msg)>> >>)

\* _parse_event that never decodes base64 (the isBase64Encoded flag ignored)
ParseEventIgnoringFlag(event) ==
  IF ~IsDict(event) THEN JObj(<<>>)
  ELSE IF HasKey(event, <<"b","o","d","y">>)
    THEN LET body == DictGet(event, <<"b","o","d","y">>, JNull)
         IN  IF IsStr(body)
               THEN LET r == JsonLoads(body.s)
                    IN  IF r.ok THEN r.val ELSE ParseError(ErrInvalidJson)
             ELSE IF IsDict(body) THEN body
             ELSE ParseError(ErrUnsupportedBody)
  ELSE event

ParseEvent(event) ==
  IF ~IsDict(event) THEN JObj(<<>>)
  ELSE IF HasKey(event, <<"b","o","d","y">>)
    THEN LET body0 == DictGet(event, <<"b","o","d","y">>, JNull)
             b64   == Truthy(DictGet(event, <<"i","s","B","a","s","e","6","4","E","n","c","o","d","e","d">>, JNull)) /\ IsStr(body0)
             dec   == B64Decode(body0.s)
             utf   == Utf8Decode(dec.val)
         IN  IF b64 /\ (~dec.ok \/ ~utf.ok) THEN ParseError(ErrInvalidBase64)
             ELSE LET body == IF b64 THEN JStr(utf.val) ELSE body0
                  IN  IF IsStr(body)
                        THEN LET r == JsonLoads(body.s)
                             IN  IF r.ok THEN r.val ELSE ParseError(ErrInvalidJson)
                      ELSE IF IsDict(body) THEN body
                      ELSE ParseError(ErrUnsupportedBody)
  ELSE event

(* ---------------------------------------------------------------------- *)
(* Inputs: invocation envelopes                                            *)
(* ---------------------------------------------------------------------- *)
MaxPad == 2

Pad(n) == Rep(" ", n)

Prompt(text) == << <<<<"p","r","o","m","p","t">>, text>> >>

\* prompts that are strings: short ones, all-whitespace ones, and ones at
\* the length limit with 0..MaxPad characters of whitespace on each side
StringPrompts ==
  { <<"a"," ","c","a","t">>, <<"\t"," ","a"," ","r","e","d"," "," ","p","o","s","t","e","r","\n">> }
  \cup { Pad(k) : k \in 0..MaxPad }
  \cup { Pad(k) \o Rep("a", n) \o Pad(k) :
           k \in 0..MaxPad, n \in {MaxPromptLen, MaxPromptLen + 1} }
  \cup { Pad(MaxPad) \o Rep("a", MaxPromptLen - MaxPad) }

\* prompts of every other JSON type, falsy and truthy
OtherPrompts ==
  { JNull, JNum(0), JBool(FALSE), JList(<<>>), JObj(<<>>),
    JNum(5), JBool(TRUE), JList(<<JStr(<<"x">>)>>), JObj(<< <<<<"a">>, JNum(1)>> >>) }

\* request mappings without a `body` field
PlainMappings ==
  { JObj(Prompt(JStr(p))) : p \in StringPrompts }
  \cup { JObj(Prompt(v)) : v \in OtherPrompts }
  \cup { JObj(<<>>),
         JObj(<< <<<<"s","e","e","d">>, JNum(7)>> >>),
         JObj(Prompt(JStr(<<"a"," ","c","a","t">>)) \o << <<<<"s","e","e","d">>, JNum(7)>> >>),
         JObj(Prompt(JStr(<<"a"," ","c","a","t">>)) \o << <<<<"i","s","B","a","s","e","6","4","E","n","c","o","d","e","d">>, JBool(TRUE)>> >>),
         JObj(Prompt(JStr(<<"a"," ","c","a","t">>)) \o << <<ParseErrorKey, JStr(<<"b","o","o","m">>)>> >>),
         JObj(Prompt(JStr(<<"a"," ","c","a","t">>)) \o << <<ParseErrorKey, JStr(<<>>)>> >>),
         JObj(<< <<ParseErrorKey, JNum(7)>> >>) }

\* request mappings that themselves carry a `body` field
BodyMappings ==
  { JObj(Prompt(JStr(<<"a"," ","c","a","t">>)) \o << <<<<"b","o","d","y">>, JStr(<<"{","}">>)>> >>),
    JObj(Prompt(JStr(<<"a"," ","c","a","t">>)) \o << <<<<"b","o","d","y">>, JObj(Prompt(JStr(<<"a"," ","d","o","g">>)))>> >>),
    JObj(Prompt(JStr(<<"a"," ","c","a","t">>)) \o << <<<<"b","o","d","y">>, JNum(5)>> >>) }

Mappings == PlainMappings \cup BodyMappings

\* the three envelope shapes of the docstring of _parse_event
DirectEnvelope(m) == m

JsonEnvelope(m) == JObj(<< <<<<"b","o","d","y">>, JStr(JsonDumps(m))>> >>)

Base64Envelope(m) ==
  JObj(<< <<<<"b","o","d","y">>, JStr(B64Encode(Utf8Encode(JsonDumps(m))))>>,
          <<<<"i","s","B","a","s","e","6","4","E","n","c","o","d","e","d">>, JBool(TRUE)>> >>)

BodyEnvelope(body, flag) ==
  JObj(<< <<<<"b","o","d","y">>, body>>, <<<<"i","s","B","a","s","e","6","4","E","n","c","o","d","e","d">>, flag>> >>)

\* envelopes that are not the encoding of a request mapping
RawEnvelopes ==
  { JNull, JList(<<>>), JStr(<<"a"," ","c","a","t">>), JNum(3) }
  \cup { BodyEnvelope(JStr(t), JBool(FALSE)) :
           t \in { <<"n","o","t"," ","j","s","o","n">>, <<>>, <<"[","1","]">>, <<"n","u","l","l">>, <<"5">>, <<"\"","a"," ","c","a","t","\"">>,
                   <<"{","\"","p","r","o","m","p","t","\"",":"," ","\"","a"," ","c","a","t","\"",",","}">>, <<" ","{","\"","p","r","o","m","p","t","\"",":","\"","a"," ","c","a","t","\"","}","\n">> } }
  \cup { BodyEnvelope(JStr(t), JBool(TRUE)) :
           t \in { <<"a","b","c">>, <<"a">>, <<"/","w","=","=">>, <<"!","!","!","!">>, <<"W","z","F","d">>, <<"{","\"","p","r","o","m","p","t","\"",":"," ","\"","a"," ","c","a","t","\"","}">>,
                   <<"e","y","J","w","c","m","9","t","c","H","Q","i","O","i","A","i","Y","S","B","j","Y","X","Q","i","f","Q">>, <<"e","y","J","w","c","m","9","t"," ","c","H","Q","i","O","i","A","i","Y","S","B","j","Y","X","Q","i","f","Q","=","=","!">> } }
  \cup { BodyEnvelope(b, f) :
           b \in { JNull, JNum(5), JList(<<>>), JObj(Prompt(JStr(<<"a"," ","d","o","g">>))) },
           f \in { JBool(TRUE), JBool(FALSE) } }
  \cup { JObj(<< <<<<"b","o","d","y">>, JObj(Prompt(JStr(<<"a"," ","d","o","g">>)))>> >>),
         BodyEnvelope(JStr(<<"e","y","J","w","c","m","9","t","c","H","Q","i","O","i","A","i","Y","S","B","j","Y","X","Q","i","f","Q","=","=">>), JNum(1)),
         BodyEnvelope(JStr(<<"e","y","J","w","c","m","9","t","c","H","Q","i","O","i","A","i","Y","S","B","j","Y","X","Q","i","f","Q","=","=">>), JStr(<<"f","a","l","s","e">>)),
         BodyEnvelope(JStr(<<"{","\"","p","r","o","m","p","t","\"",":"," ","\"","a"," ","c","a","t","\"","}">>), JNum(0)) }

Shapes == {"direct", "json", "base64"}

\* the envelope a caller sends for request mapping m
Envelope(m, shape) ==
  CASE shape = "direct" -> DirectEnvelope(m)
    [] shape = "json"   -> JsonEnvelope(m)
    [] shape = "base64" -> Base64Envelope(m)

(* ---------------------------------------------------------------------- *)
(* Inputs: what the external services answer                               *)
(* ---------------------------------------------------------------------- *)
\* response payloads of the model service, as the text of resp["body"]
ModelPayloads ==
  { <<"{","\"","s","e","e","d","s","\"",":"," ","[","7","]",","," ","\"","f","i","n","i","s","h","_","r","e","a","s","o","n","s","\"",":"," ","[","n","u","l","l","]",","," ","\"","i","m","a","g","e","s","\"",":"," ","[","\"","a","G","k","=","\"","]","}">>,
    <<"{","\"","i","m","a","g","e","s","\"",":"," ","[","\"","a","G","k","=","\"",","," ","\"","e","W","8","=","\"","]","}">>,
    <<"{","\"","i","m","a","g","e","s","\"",":"," ","[","\"","a","G","k","=","\"","]",","," ","\"","f","i","n","i","s","h","_","r","e","a","s","o","n","s","\"",":"," ","[","]",","," ","\"","s","e","e","d","s","\"",":"," ","[","]","}">>,
    <<"{","\"","i","m","a","g","e","s","\"",":"," ","[","\"","a","G","k","=","\"","]",","," ","\"","f","i","n","i","s","h","_","r","e","a","s","o","n","s","\"",":"," ","[","n","u","l","l",","," ","\"","E","R","R","O","R","\"","]",","," ","\"","s","e","e","d","s","\"",":"," ","\"","4","2","\"","}">>,
    <<"{","\"","i","m","a","g","e","s","\"",":"," ","[","\"","!","!","!","!","\"","]",","," ","\"","s","e","e","d","s","\"",":"," ","[","0","]","}">>,
    <<"{","\"","i","m","a","g","e","s","\"",":"," ","[","\"","a","G","k","=","\"","]",","," ","\"","s","e","e","d","s","\"",":"," ","5","}">>,
    <<"{","\"","i","m","a","g","e","s","\"",":"," ","[","\"","a","G","k","=","\"","]",","," ","\"","s","e","e","d","s","\"",":"," ","{","\"","a","\"",":"," ","1","}","}">>,
    <<"{","\"","f","i","n","i","s","h","_","r","e","a","s","o","n","s","\"",":"," ","[","\"","C","O","N","T","E","N","T","_","F","I","L","T","E","R","E","D","\"","]",","," ","\"","i","m","a","g","e","s","\"",":"," ","[","\"","a","G","k","=","\"","]",","," ","\"","s","e","e","d","s","\"",":"," ","[","7","]","}">>,
    <<"{","\"","f","i","n","i","s","h","_","r","e","a","s","o","n","s","\"",":"," ","[","\"","C","O","N","T","E","N","T","_","F","I","L","T","E","R","E","D","\"",","," ","n","u","l","l","]","}">>,
    <<"{","\"","f","i","n","i","s","h","_","r","e","a","s","o","n","s","\"",":"," ","\"","E","R","R","O","R","\"",","," ","\"","i","m","a","g","e","s","\"",":"," ","[","]","}">>,
    <<"{","\"","f","i","n","i","s","h","_","r","e","a","s","o","n","s","\"",":"," ","5",","," ","\"","i","m","a","g","e","s","\"",":"," ","[","\"","a","G","k","=","\"","]","}">>,
    <<"{","\"","f","i","n","i","s","h","_","r","e","a","s","o","n","s","\"",":"," ","{","\"","a","\"",":"," ","1","}",","," ","\"","i","m","a","g","e","s","\"",":"," ","[","\"","a","G","k","=","\"","]","}">>,
    <<"{","\"","f","i","n","i","s","h","_","r","e","a","s","o","n","s","\"",":"," ","[","n","u","l","l","]",","," ","\"","i","m","a","g","e","s","\"",":"," ","[","]","}">>,
    <<"{","\"","f","i","n","i","s","h","_","r","e","a","s","o","n","s","\"",":"," ","[","n","u","l","l","]","}">>,
    <<"{","\"","i","m","a","g","e","s","\"",":"," ","n","u","l","l","}">>,
    <<"{","}">>,
    <<"{","\"","i","m","a","g","e","s","\"",":"," ","[","\"","a","\"","]","}">>,
    <<"{","\"","i","m","a","g","e","s","\"",":"," ","[","5","]","}">>,
    <<"{","\"","i","m","a","g","e","s","\"",":"," ","5","}">>,
    <<"{","\"","i","m","a","g","e","s","\"",":"," ","{","\"","a","\"",":"," ","\"","a","G","k","=","\"","}","}">>,
    <<"{","\"","i","m","a","g","e","s","\"",":"," ","\"","a","G","k","=","\"","}">>,
    <<"[","]">>,
    <<"n","u","l","l">>,
    <<"n","o","t"," ","j","s","o","n">>,
    <<>> }

\* outcomes of client_bedrock.invoke_model: it raises, or it returns a
\* response whose body stream either fails on read() or yields a payload
InvokeOutcomes ==
  { [raised |-> TRUE, readable |-> FALSE, text |-> <<>>],
    [raised |-> FALSE, readable |-> FALSE, text |-> <<>>] }
  \cup { [raised |-> FALSE, readable |-> TRUE, text |-> t] : t \in ModelPayloads }

\* datetime.utcnow().strftime("%Y%m%d%H%M%S")
Timestamps == { <<"2","0","2","4","0","2","2","9","2","3","5","9","5","9">> }

NumRids == 2

HexDigits == <<"0","1","2","3","4","5","6","7","8","9","a","b","c","d","e","f">>

\* uuid.uuid4().hex[:10]
Rids == { Rep("0", RidLen - 1) \o <<HexDigits[i]>> : i \in 1..NumRids }

\* s3.generate_presigned_url: the URL names the object and its expiry
PresignedUrl(bucket, key, expires) ==
  <<"h","t","t","p","s",":","/","/">> \o bucket \o <<".","s","3",".","a","m","a","z","o","n","a","w","s",".","c","o","m","/">> \o key
  \o <<"?","X","-","A","m","z","-","E","x","p","i","r","e","s","=">> \o NatDigits(expires)

(* ---------------------------------------------------------------------- *)
(* lambda_handler, one invocation                                          *)
(* ---------------------------------------------------------------------- *)
VARIABLES
  cfg,        \* OUTPUT_BUCKET, MODEL_ID, KEY_PREFIX
  request,    \* the request mapping the caller means (JNull for a raw envelope)
  shape,      \* how the caller enveloped it: a member of Shapes, or "raw"
  event,      \* the invocation envelope
  pc,         \* position in lambda_handler; "returned" and "raised" are final
  payload,    \* result of _parse_event
  prompt,     \* the stripped prompt
  resp,       \* the outcome of invoke_model
  data,       \* the parsed model response
  images,     \* data.get("images") or []
  img_bytes,  \* the decoded first image
  key,        \* the storage key
  url,        \* the presigned URL
  response,   \* the value returned to the caller
  fault,      \* the exception raised to the caller
  calls,      \* the external calls made, in order
  objects     \* the objects in storage

vars == <<cfg, request, shape, event, pc, payload, prompt, resp, data, images, img_bytes, key,
          url, response, fault, calls, objects>>

NoCall == [op |-> "none", ok |-> FALSE, target |-> <<>>, key |-> <<>>,
           body |-> <<>>, contentType |-> <<>>, expiresIn |-> 0]

Init ==
  /\ cfg \in Configs
  /\ \/ /\ request \in Mappings
        /\ shape \in Shapes
        /\ event = Envelope(request, shape)
     \/ /\ request = JNull
        /\ shape = "raw"
        /\ event \in RawEnvelopes
  /\ pc = "parse"
  /\ payload = JNull
  /\ prompt = <<>>
  /\ resp = [raised |-> FALSE, readable |-> FALSE, text |-> <<>>]
  /\ data = JNull
  /\ images = JNull
  /\ img_bytes = <<>>
  /\ key = <<>>
  /\ url = <<>>
  /\ response = NoResponse
  /\ fault = "none"
  /\ calls = <<>>
  /\ objects = {}

\* `return _resp(status, body)`
Return(status_code, body) ==
  /\ response' = Resp(status_code, body)
  /\ pc' = "returned"
  /\ fault' = fault

\* an exception that no handler catches
Raise(exc) ==
  /\ fault' = exc
  /\ pc' = "raised"
  /\ response' = response

Goto(label) ==
  /\ pc' = label
  /\ response' = response
  /\ fault' = fault

\* line 68
CallParseEvent ==
  /\ pc = "parse"
  /\ payload' = ParseEvent(event)
  /\ Goto("check")
  /\ UNCHANGED <<cfg, request, shape, event, prompt, resp, data, images, img_bytes, key, url,
                 calls, objects>>

\* lines 70-71
CheckParseError ==
  /\ pc = "check"
  /\ IF ~IsDict(payload) THEN Raise("AttributeError")
     ELSE IF Truthy(DictGet(payload, ParseErrorKey, JNull))
       THEN Return(400, JObj(<< <<<<"e","r","r","o","r">>, DictGet(payload, ParseErrorKey, JNull)>> >>))
     ELSE Goto("validate")
  /\ UNCHANGED <<cfg, request, shape, event, payload, prompt, resp, data, images, img_bytes, key,
                 url, calls, objects>>

\* the length check of line 78 with an inclusive limit
TooLongInclusive(text) == Len(text) >= MaxPromptLen

\* line 78: `len(prompt) > 800`
TooLong(text) == Len(text) > MaxPromptLen

\* lines 73-79 answering an oversized prompt with a server error
ValidatePromptServerError ==
  /\ pc = "validate"
  /\ LET given == DictGet(payload, <<"p","r","o","m","p","t">>, JNull)
         value == IF Truthy(given) THEN given ELSE JStr(<<>>)
         text  == IF IsStr(value) THEN Strip(value.s) ELSE <<>>
     IN  /\ prompt' = text
         /\ IF ~IsStr(value) THEN Raise("AttributeError")
            ELSE IF Len(text) = 0 THEN Return(400, ErrorBody(ErrMissingPrompt))
            ELSE IF TooLong(text) THEN Return(502, ErrorBody(ErrPromptTooLong))
            ELSE Goto("invoke")
  /\ UNCHANGED <<cfg, request, shape, event, payload, resp, data, images, img_bytes, key, url,
                 calls, objects>>

\* lines 73-79
ValidatePrompt ==
  /\ pc = "validate"
  /\ LET given == DictGet(payload, <<"p","r","o","m","p","t">>, JNull)
         value == IF Truthy(given) THEN given ELSE JStr(<<>>)
         text  == IF IsStr(value) THEN Strip(value.s) ELSE <<>>
     IN  /\ prompt' = text
         /\ IF ~IsStr(value) THEN Raise("AttributeError")
            ELSE IF Len(text) = 0 THEN Return(400, ErrorBody(ErrMissingPrompt))
            ELSE IF TooLong(text) THEN Return(400, ErrorBody(ErrPromptTooLong))
            ELSE Goto("invoke")
  /\ UNCHANGED <<cfg, request, shape, event, payload, resp, data, images, img_bytes, key, url,
                 calls, objects>>

InvokeBody(text) ==
  JsonDumps(JObj(<< <<<<"p","r","o","m","p","t">>, JStr(text)>>, <<<<"o","u","t","p","u","t","_","f","o","r","m","a","t">>, JStr(<<"p","n","g">>)>> >>))

\* lines 85-100
InvokeModel ==
  /\ pc = "invoke"
  /\ \E out \in InvokeOutcomes :
       /\ calls' = Append(calls, [NoCall EXCEPT !.op = "invoke_model",
                                                !.ok = ~out.raised,
                                                !.target = cfg.MODEL_ID,
                                                !.body = InvokeBody(prompt),
                                                !.contentType = <<"a","p","p","l","i","c","a","t","i","o","n","/","j","s","o","n">>])
       /\ resp' = out
       /\ IF out.raised THEN Return(502, ErrorBody(ErrInvokeFailed))
          ELSE Goto("read")
  /\ UNCHANGED <<cfg, request, shape, event, payload, prompt, data, images, img_bytes, key, url,
                 objects>>

\* lines 102-105
ReadResponse ==
  /\ pc = "read"
  /\ LET r == JsonLoads(resp.text)
     IN  IF resp.readable /\ r.ok
         THEN data' = r.val /\ Goto("finish")
         ELSE data' = data /\ Return(502, ErrorBody(ErrInvalidResponse))
  /\ UNCHANGED <<cfg, request, shape, event, payload, prompt, resp, images, img_bytes, key, url,
                 calls, objects>>

\* lines 107-113 with the two checks in the other order: a response that
\* carries images is never reported as filtered
CheckFinishReasonsAfterImages ==
  /\ pc = "finish"
  /\ IF ~IsDict(data) THEN Raise("AttributeError")
     ELSE LET finish_reasons == DictGet(data, <<"f","i","n","i","s","h","_","r","e","a","s","o","n","s">>, JList(<<>>))
              first == Index0(finish_reasons)
          IN  IF Truthy(DictGet(data, <<"i","m","a","g","e","s">>, JNull)) \/ ~Truthy(finish_reasons)
                THEN Goto("images")
              ELSE IF ~first.ok THEN Raise(first.exc)
              ELSE IF first.val # JNull
                THEN Return(400, JObj(<< <<<<"e","r","r","o","r">>, JStr(ErrFiltered)>>,
                                         <<<<"f","i","n","i","s","h","_","r","e","a","s","o","n","s">>, finish_reasons>> >>))
              ELSE Goto("images")
  /\ UNCHANGED <<cfg, request, shape, event, payload, prompt, resp, data, images, img_bytes, key,
                 url, calls, objects>>

\* lines 107-109
CheckFinishReasons ==
  /\ pc = "finish"
  /\ IF ~IsDict(data) THEN Raise("AttributeError")
     ELSE LET finish_reasons == DictGet(data, <<"f","i","n","i","s","h","_","r","e","a","s","o","n","s">>, JList(<<>>))
              first == Index0(finish_reasons)
          IN  IF ~Truthy(finish_reasons) THEN Goto("images")
              ELSE IF ~first.ok THEN Raise(first.exc)
              ELSE IF first.val # JNull
                THEN Return(400, JObj(<< <<<<"e","r","r","o","r">>, JStr(ErrFiltered)>>,
                                         <<<<"f","i","n","i","s","h","_","r","e","a","s","o","n","s">>, finish_reasons>> >>))
              ELSE Goto("images")
  /\ UNCHANGED <<cfg, request, shape, event, payload, prompt, resp, data, images, img_bytes, key,
                 url, calls, objects>>

\* lines 111-113
CheckImages ==
  /\ pc = "images"
  /\ LET given == DictGet(data, <<"i","m","a","g","e","s">>, JNull)
         value == IF Truthy(given) THEN given ELSE JList(<<>>)
     IN  /\ images' = value
         /\ IF ~Truthy(value) THEN Return(502, ErrorBody(ErrNoImage))
            ELSE Goto("decode")
  /\ UNCHANGED <<cfg, request, shape, event, payload, prompt, resp, data, img_bytes, key, url,
                 calls, objects>>

\* lines 115-118: images[0] and b64decode are both inside the try
DecodeImage ==
  /\ pc = "decode"
  /\ LET first == Index0(images)
         dec   == IF first.ok /\ IsStr(first.val) THEN B64Decode(first.val.s)
                  ELSE [ok |-> FALSE, val |-> <<>>]
     IN  IF dec.ok
         THEN img_bytes' = dec.val /\ Goto("key")
         ELSE img_bytes' = img_bytes /\ Return(502, ErrorBody(ErrImageDecode))
  /\ UNCHANGED <<cfg, request, shape, event, payload, prompt, resp, data, images, key, url, calls,
                 objects>>

\* the key of line 122 without its extension
MakeKeyNameNoSuffix(prefix, ts, rid) == prefix \o <<"p","o","s","t","e","r","_">> \o ts \o <<"_">> \o rid

MakeKeyName(prefix, ts, rid) == prefix \o <<"p","o","s","t","e","r","_">> \o ts \o <<"_">> \o rid \o <<".","p","n","g">>

\* lines 120-122
MakeKey ==
  /\ pc = "key"
  /\ \E ts \in Timestamps, rid \in Rids : key' = MakeKeyName(cfg.KEY_PREFIX, ts, rid)
  /\ Goto("put")
  /\ UNCHANGED <<cfg, request, shape, event, payload, prompt, resp, data, images, img_bytes, url,
                 calls, objects>>

\* lines 124-132 with the failure of put_object swallowed: the handler goes
\* on to presign
PutObjectContinue ==
  /\ pc = "put"
  /\ \E ok \in BOOLEAN :
       /\ calls' = Append(calls, [NoCall EXCEPT !.op = "put_object",
                                                !.ok = ok,
                                                !.target = cfg.OUTPUT_BUCKET,
                                                !.key = key,
                                                !.body = img_bytes,
                                                !.contentType = <<"i","m","a","g","e","/","p","n","g">>])
       /\ objects' = IF ok
                     THEN {o \in objects : ~(o.bucket = cfg.OUTPUT_BUCKET /\ o.key = key)}
                            \cup {[bucket |-> cfg.OUTPUT_BUCKET, key |-> key,
                                   body |-> img_bytes, contentType |-> <<"i","m","a","g","e","/","p","n","g">>]}
                     ELSE objects
       /\ Goto("presign")
  /\ UNCHANGED <<cfg, request, shape, event, payload, prompt, resp, data, images, img_bytes, key, url>>

\* lines 124-132
PutObject ==
  /\ pc = "put"
  /\ \E ok \in BOOLEAN :
       /\ calls' = Append(calls, [NoCall EXCEPT !.op = "put_object",
                                                !.ok = ok,
                                                !.target = cfg.OUTPUT_BUCKET,
                                                !.key = key,
                                                !.body = img_bytes,
                                                !.contentType = <<"i","m","a","g","e","/","p","n","g">>])
       /\ IF ok
          THEN /\ objects' = {o \in objects : ~(o.bucket = cfg.OUTPUT_BUCKET /\ o.key = key)}
                               \cup {[bucket |-> cfg.OUTPUT_BUCKET, key |-> key,
                                      body |-> img_bytes, contentType |-> <<"i","m","a","g","e","/","p","n","g">>]}
               /\ Goto("presign")
          ELSE /\ objects' = objects
               /\ Return(502, ErrorBody(ErrUpload))
  /\ UNCHANGED <<cfg, request, shape, event, payload, prompt, resp, data, images, img_bytes, key, url>>

\* lines 134-141
Presign ==
  /\ pc = "presign"
  /\ \E ok \in BOOLEAN :
       /\ calls' = Append(calls, [NoCall EXCEPT !.op = "generate_presigned_url",
                                                !.ok = ok,
                                                !.target = cfg.OUTPUT_BUCKET,
                                                !.key = key,
                                                !.expiresIn = ExpiresIn])
       /\ IF ok
          THEN /\ url' = PresignedUrl(cfg.OUTPUT_BUCKET, key, ExpiresIn)
               /\ Goto("respond")
          ELSE /\ url' = url
               /\ Return(502, ErrorBody(ErrPresign))
  /\ UNCHANGED <<cfg, request, shape, event, payload, prompt, resp, data, images, img_bytes, key,
                 objects>>

\* lines 143-152
Respond ==
  /\ pc = "respond"
  /\ LET given == DictGet(data, <<"s","e","e","d","s">>, JNull)
         seeds == IF Truthy(given) THEN given ELSE JList(<<JNull>>)
         seed  == Index0(seeds)
     IN  IF ~seed.ok THEN Raise(seed.exc)
         ELSE Return(200, JObj(<< <<<<"b","u","c","k","e","t">>, JStr(cfg.OUTPUT_BUCKET)>>,
                                  <<<<"k","e","y">>, JStr(key)>>,
                                  <<<<"u","r","l">>, JStr(url)>>,
                                  <<<<"s","e","e","d">>, seed.val>>,
                                  <<<<"m","o","d","e","l","I","d">>, JStr(cfg.MODEL_ID)>> >>))
  /\ UNCHANGED <<cfg, request, shape, event, payload, prompt, resp, data, images, img_bytes, key,
                 url, calls, objects>>

Next ==
  \/ CallParseEvent
  \/ CheckParseError
  \/ ValidatePrompt
  \/ InvokeModel
  \/ ReadResponse
  \/ CheckFinishReasons
  \/ CheckImages
  \/ DecodeImage
  \/ MakeKey
  \/ PutObject
  \/ Presign
  \/ Respond

Spec == Init /\ [][Next]_vars

(* ---------------------------------------------------------------------- *)
(* Properties                                                              *)
(* ---------------------------------------------------------------------- *)
Final == pc \in {"returned", "raised"}

\* the handler returned _resp(status, body)
Answered(status, body) ==
  /\ pc = "returned"
  /\ response.statusCode = status
  /\ response.headers = ResponseHeaders
  /\ response.body = JsonDumps(body)

Marker == DictGet(payload, ParseErrorKey, JNull)

GivenPrompt == DictGet(payload, <<"p","r","o","m","p","t">>, JNull)

\* length of s without its leading and trailing whitespace
TrimmedLength(s) ==
  LET solid == {i \in 1..Len(s) : s[i] \notin Whitespace}
  IN  IF solid = {} THEN 0 ELSE MaxOf(solid) - MinOf(solid) + 1

\* the model call was made and returned a response
ModelReturned == Len(calls) >= 1 /\ calls[1].op = "invoke_model" /\ calls[1].ok

\* what the payload of the model response parses to
Parsed == JsonLoads(resp.text)

ModelData == Parsed.val

ResponseIsMapping == ModelReturned /\ resp.readable /\ Parsed.ok /\ IsDict(ModelData)

FinishReasons == DictGet(ModelData, <<"f","i","n","i","s","h","_","r","e","a","s","o","n","s">>, JList(<<>>))

\* finish_reasons has a first entry and it is not null
Filtered == Truthy(FinishReasons) /\ Index0(FinishReasons).ok /\ Index0(FinishReasons).val # JNull

\* finish_reasons is absent or empty, or its first entry is null
NotFiltered == ~Truthy(FinishReasons) \/ (Index0(FinishReasons).ok /\ Index0(FinishReasons).val = JNull)

GivenImages == DictGet(ModelData, <<"i","m","a","g","e","s">>, JNull)

\* the first image is a string that base64-decodes
FirstImageDecodes ==
  /\ Truthy(GivenImages)
  /\ Index0(GivenImages).ok
  /\ IsStr(Index0(GivenImages).val)
  /\ B64Decode(Index0(GivenImages).val.s).ok

PutCalls == {i \in 1..Len(calls) : calls[i].op = "put_object"}

PresignCalls == {i \in 1..Len(calls) : calls[i].op = "generate_presigned_url"}

InvokeCalls == {i \in 1..Len(calls) : calls[i].op = "invoke_model"}

PutSucceeded == \E i \in PutCalls : calls[i].ok

PresignSucceeded == \E i \in PresignCalls : calls[i].ok

\* C1: the handler is total: no invocation ends in a fault raised to the
\* caller, and every response it returns has a status of 200, 400 or 502, the
\* two fixed headers and a body that is JSON text.
C1_Total ==
  /\ pc # "raised"
  /\ pc = "returned" =>
       /\ response.statusCode \in {200, 400, 502}
       /\ response.headers = ResponseHeaders
       /\ JsonLoads(response.body).ok

InputErrors ==
  {ErrInvalidBase64, ErrInvalidJson, ErrUnsupportedBody, ErrMissingPrompt, ErrPromptTooLong}

ResponseError == DictGet(JsonLoads(response.body).val, <<"e","r","r","o","r">>, JNull)

\* C2: an invocation that ends with one of the five input errors answers 400
\* with exactly that message and has made no upstream call; and every
\* normalization failure ends that way.
C2_InputErrorsMakeNoCalls ==
  /\ (pc = "returned" /\ IsStr(ResponseError) /\ ResponseError.s \in InputErrors) =>
       /\ Answered(400, ErrorBody(ResponseError.s))
       /\ calls = <<>>
       /\ objects = {}
  /\ \A msg \in {ErrInvalidBase64, ErrInvalidJson, ErrUnsupportedBody} :
       (Final /\ payload = ParseError(msg)) =>
         Answered(400, ErrorBody(msg)) /\ calls = <<>>

C2_Witness ==
  /\ shape = "raw"
  /\ payload = ParseError(ErrInvalidBase64)
  /\ Answered(400, ErrorBody(ErrInvalidBase64))
  /\ calls = <<>>

\* C3: a normalized request mapping whose prompt is missing, is not a string,
\* is empty or is all whitespace is answered 400 "Missing 'prompt'".
C3_MissingPrompt ==
  (/\ Final
   /\ IsDict(payload)
   /\ ~Truthy(Marker)
   /\ \/ ~HasKey(payload, <<"p","r","o","m","p","t">>)
      \/ ~IsStr(GivenPrompt)
      \/ TrimmedLength(GivenPrompt.s) = 0)
  => Answered(400, ErrorBody(ErrMissingPrompt))

\* C4: a direct invocation (a mapping without a body field, whatever else it
\* carries) whose prompt is a string of trimmed length 1..800 makes exactly one
\* model call, with the trimmed prompt.
C4_DirectInvokesOnce ==
  (/\ Final
   /\ IsDict(event)
   /\ ~HasKey(event, <<"b","o","d","y">>)
   /\ IsStr(DictGet(event, <<"p","r","o","m","p","t">>, JNull))
   /\ TrimmedLength(DictGet(event, <<"p","r","o","m","p","t">>, JNull).s) \in 1..MaxPromptLen)
  => /\ InvokeCalls = {1}
     /\ calls[1].body = InvokeBody(Strip(DictGet(event, <<"p","r","o","m","p","t">>, JNull).s))

\* C5 as stated: for every request mapping, the direct envelope, the JSON body
\* envelope and the base64 body envelope all normalize to that mapping.
C5_AnyMapping ==
  (shape \in Shapes /\ pc # "parse") => payload = request

\* C5: for every request mapping that has no body field, the direct envelope,
\* the JSON body envelope and the base64 body envelope all normalize to that
\* mapping (and the steps after normalization read only the payload).
C5_Transparent ==
  (shape \in Shapes /\ ~HasKey(request, <<"b","o","d","y">>) /\ pc # "parse") => payload = request

C5_Witness ==
  /\ pc = "check"
  /\ shape = "base64"
  /\ ~HasKey(request, <<"b","o","d","y">>)
  /\ IsStr(DictGet(request, <<"p","r","o","m","p","t">>, JNull))
  /\ Len(DictGet(request, <<"p","r","o","m","p","t">>, JNull).s) > MaxPromptLen
  /\ payload = request

\* C6: for a request that reaches prompt validation with a string prompt, the
\* length that counts is the trimmed one: trimmed length 1..800 (800 included,
\* whatever the untrimmed length) leads to the model call with the trimmed
\* prompt, trimmed length 801 or more is answered 400 "Prompt too long (max
\* 800 chars)" without a model call.
C6_TrimmedLength ==
  (Final /\ IsDict(payload) /\ ~Truthy(Marker) /\ IsStr(GivenPrompt)) =>
    LET n == TrimmedLength(GivenPrompt.s)
    IN  /\ n \in 1..MaxPromptLen =>
             /\ InvokeCalls = {1}
             /\ calls[1].body = InvokeBody(prompt)
             /\ Len(prompt) = n
             /\ ~Answered(400, ErrorBody(ErrPromptTooLong))
        /\ n > MaxPromptLen =>
             /\ Answered(400, ErrorBody(ErrPromptTooLong))
             /\ calls = <<>>

C6_Witness ==
  /\ Final
  /\ IsDict(payload)
  /\ IsStr(GivenPrompt)
  /\ Len(GivenPrompt.s) > MaxPromptLen
  /\ TrimmedLength(GivenPrompt.s) = MaxPromptLen
  /\ InvokeCalls = {1}

\* C7: when the model call succeeds and the parsed response has a non-null
\* first finish_reasons entry, the answer is 400 "Filtered/failed" with the
\* whole finish_reasons value echoed, and nothing is written or presigned,
\* whether or not the response carries images.
C7_Filtered ==
  (Final /\ ResponseIsMapping /\ Filtered) =>
    /\ Answered(400, JObj(<< <<<<"e","r","r","o","r">>, JStr(ErrFiltered)>>,
                             <<<<"f","i","n","i","s","h","_","r","e","a","s","o","n","s">>, FinishReasons>> >>))
    /\ Len(calls) = 1
    /\ objects = {}

C7_Witness ==
  /\ Final
  /\ ResponseIsMapping
  /\ Filtered
  /\ FirstImageDecodes
  /\ Len(FinishReasons.items) = 1
  /\ response.statusCode = 400

\* C8: every upstream failure is answered 502 with the message of its site:
\* the model call raises; the payload is not readable as a JSON mapping; the
\* response has no images; the first image does not decode; the storage write
\* raises; the presign raises.
C8_UpstreamFailures ==
  Final =>
    /\ (Len(calls) >= 1 /\ ~calls[1].ok) => Answered(502, ErrorBody(ErrInvokeFailed))
    /\ (ModelReturned /\ ~ResponseIsMapping) => Answered(502, ErrorBody(ErrInvalidResponse))
    /\ (ResponseIsMapping /\ NotFiltered /\ ~Truthy(GivenImages)) =>
         Answered(502, ErrorBody(ErrNoImage))
    /\ (ResponseIsMapping /\ NotFiltered /\ Truthy(GivenImages) /\ ~FirstImageDecodes) =>
         Answered(502, ErrorBody(ErrImageDecode))
    /\ (\E i \in PutCalls : ~calls[i].ok) => Answered(502, ErrorBody(ErrUpload))
    /\ (\E i \in PresignCalls : ~calls[i].ok) => Answered(502, ErrorBody(ErrPresign))

\* the prompt was valid, the model answered with no non-null first finish
\* reason and a first image that decodes, and both storage calls succeeded
AllSucceeded ==
  /\ IsDict(payload)
  /\ IsStr(GivenPrompt)
  /\ TrimmedLength(GivenPrompt.s) \in 1..MaxPromptLen
  /\ ResponseIsMapping
  /\ NotFiltered
  /\ FirstImageDecodes
  /\ PutSucceeded
  /\ PresignSucceeded

\* the 200 body names the written object and the configured model
SuccessBodyNamesObject ==
  LET body == JsonLoads(response.body).val
  IN  /\ DictGet(body, <<"b","u","c","k","e","t">>, JNull) = JStr(cfg.OUTPUT_BUCKET)
      /\ DictGet(body, <<"k","e","y">>, JNull) = JStr(key)
      /\ DictGet(body, <<"m","o","d","e","l","I","d">>, JNull) = JStr(cfg.MODEL_ID)
      /\ IsStr(DictGet(body, <<"u","r","l">>, JNull))
      /\ Len(DictGet(body, <<"u","r","l">>, JNull).s) > 0
      /\ HasKey(body, <<"s","e","e","d">>)
      /\ StartsWith(key, cfg.KEY_PREFIX)
      /\ EndsWith(key, <<".","p","n","g">>)
      /\ objects = {[bucket |-> cfg.OUTPUT_BUCKET, key |-> key,
                     body |-> B64Decode(Index0(GivenImages).val.s).val,
                     contentType |-> <<"i","m","a","g","e","/","p","n","g">>]}
      /\ Cardinality(PutCalls) = 1

\* C9 as stated: 200 exactly when every step succeeded; a 200 names the one
\* object written; an invocation that does not end with 200 has written no
\* object.
C9_NoObjectUnless200 ==
  Final =>
    /\ (pc = "returned" /\ response.statusCode = 200) <=> AllSucceeded
    /\ (pc = "returned" /\ response.statusCode = 200) => SuccessBodyNamesObject
    /\ ~(pc = "returned" /\ response.statusCode = 200) => objects = {}

\* C9: 200 only when every step succeeded, and then the body names the one
\* object written (configured bucket, prefix, .png) and the configured model;
\* when every step succeeded the handler answers 200 or faults while building
\* that answer; an invocation that does not end with 200 has written an
\* object exactly when its storage write succeeded, which is when it ends with
\* 502 "Failed to generate presigned URL" or with that fault, and then the
\* object is the single one it wrote.
C9_OneObjectPerSuccess ==
  Final =>
    /\ (pc = "returned" /\ response.statusCode = 200) =>
         AllSucceeded /\ SuccessBodyNamesObject
    /\ AllSucceeded =>
         \/ pc = "returned" /\ response.statusCode = 200
         \/ pc = "raised" /\ Len(calls) = 3
    /\ ~(pc = "returned" /\ response.statusCode = 200) =>
         /\ objects # {} <=> PutSucceeded
         /\ PutSucceeded =>
              /\ Cardinality(objects) = 1
              /\ Cardinality(PutCalls) = 1
              /\ \A o \in objects : o.bucket = cfg.OUTPUT_BUCKET /\ o.key = key
              /\ \/ Answered(502, ErrorBody(ErrPresign))
                 \/ pc = "raised" /\ PresignSucceeded

C9_Witness ==
  /\ pc = "returned"
  /\ response.statusCode = 200
  /\ AllSucceeded
  /\ Cardinality(objects) = 1

CallOrder == <<"invoke_model", "put_object", "generate_presigned_url">>

\* C10: the external calls of an invocation are a prefix of: model call,
\* storage write, presign; none is repeated; a call is made only after every
\* earlier step succeeded; presign names the key that was written; after a
\* failed storage write no URL is generated or returned.
C10_CallOrder ==
  /\ Len(calls) <= 3
  /\ \A i \in 1..Len(calls) : calls[i].op = CallOrder[i]
  /\ \A i \in 1..(Len(calls) - 1) : calls[i].ok
  /\ Len(calls) >= 1 =>
       /\ IsDict(payload)
       /\ IsStr(GivenPrompt)
       /\ TrimmedLength(GivenPrompt.s) \in 1..MaxPromptLen
  /\ Len(calls) >= 2 =>
       /\ ResponseIsMapping
       /\ NotFiltered
       /\ FirstImageDecodes
       /\ calls[2].target = cfg.OUTPUT_BUCKET
  /\ Len(calls) = 3 =>
       /\ calls[3].key = calls[2].key
       /\ calls[3].target = calls[2].target
       /\ \E o \in objects : o.bucket = calls[3].target /\ o.key = calls[3].key
  /\ (Len(calls) >= 2 /\ ~calls[2].ok) =>
       /\ Len(calls) = 2
       /\ url = <<>>
       /\ Answered(502, ErrorBody(ErrUpload))
  /\ url # <<>> => PresignSucceeded

C10_Witness ==
  /\ pc = "returned"
  /\ Len(calls) = 2
  /\ ~calls[2].ok
  /\ Answered(502, ErrorBody(ErrUpload))

====
